---- MODULE Spec2Model ----
(***************************************************************************)
(* A model of c-chess-cli's string buffer (src/str.c) and of its option    *)
(* parser (src/options.c).                                                 *)
(*                                                                         *)
(* Memory is modelled byte by byte: a C string is the sequence of its      *)
(* bytes followed by the terminator 0, a str_t is the record               *)
(* [len, alloc, buf] whose buf is the whole allocated block (C index i is  *)
(* element i + 1).  size_t is WordBytes bytes wide and wraps.              *)
(***************************************************************************)
EXTENDS Integers, Sequences, FiniteSets, TLC

\* ------------------------------------------------------------------ bounds

\* sizeof(size_t): the modelled machine has 16-bit sizes, so that the whole
\* range of size_t is within reach
WordBytes == 2
\* the longest content a buffer may reach (the modelled memory is finite)
MaxLen == 4
\* the longest input of the tokenizer
MaxInput == 4
\* the longest content of the stream
MaxStream == 3
\* the most arguments after the program's name
MaxArgs == 3

SizeMod == 2 ^ (8 * WordBytes)
SIZE_MAX == SizeMod - 1

\* ------------------------------------------------------------ bytes

NUL == 0
NL == 10
PCT == 37
MINUS == 45
ZERO == 48
EOF == -1
\* the null pointer, as a position in a block of memory
NULL == -1

Min(a, b) == IF a < b THEN a ELSE b

\* the memory of the C string whose bytes are x
CStr(x) == x \o <<NUL>>

RECURSIVE strlen_from(_, _)
strlen_from(mem, k) ==
  IF mem[k + 1] = NUL THEN k ELSE strlen_from(mem, k + 1)

\* strlen(3): the number of bytes before the first terminator
strlen(mem) == strlen_from(mem, 0)

\* memcpy(&buf[off], src, n)
memcpy(buf, off, src, n) ==
  [i \in 1..Len(buf) |-> IF i > off /\ i <= off + n THEN src[i - off] ELSE buf[i]]

\* memchr(&mem[off], c, n): the C index of the first c, or NULL
memchr(mem, off, c, n) ==
  LET hits == {j \in off..(off + n - 1) : mem[j + 1] = c}
  IN IF hits = {} THEN NULL ELSE CHOOSE j \in hits : \A h \in hits : j <= h

\* realloc(buf, alloc): the old bytes kept, the new ones uninitialized (fill)
realloc(buf, alloc, fill) ==
  [i \in 1..alloc |-> IF i <= Len(buf) THEN buf[i] ELSE fill]

\* malloc(alloc): a block of uninitialized bytes
malloc(alloc, fill) == [i \in 1..alloc |-> fill]

\* ------------------------------------------------------------ growth policy

\* the body of str_round_up's loop: p2 *= 2, in size_t arithmetic
round_up_step(p2) == (p2 * 2) % SizeMod

RECURSIVE round_up_loop(_, _)
round_up_loop(p2, n) ==
  IF p2 < n THEN round_up_loop(round_up_step(p2), n) ELSE p2

\* round_up_init with the factor 2 forgotten: one machine word
round_up_init_one_word == WordBytes

\* the value p2 starts from: the size of 2 machine words
round_up_init == 2 * WordBytes

\* str_round_up(n), for the sizes on which its loop ends
str_round_up(n) == round_up_loop(round_up_init, n)

\* ------------------------------------------------------------ buffer

\* str_resize(s, len): the new bytes of a grown block are uninitialized
str_resize(s, len, fill) ==
  LET need == str_round_up((len + 1) % SizeMod)
      grown == IF s.alloc < need
               THEN [len |-> len, alloc |-> need, buf |-> realloc(s.buf, need, fill)]
               ELSE [s EXCEPT !.len = len]
  IN [grown EXCEPT !.buf[len + 1] = NUL]

str_ok(s) ==
  /\ s.alloc >= str_round_up(s.len + 1)
  /\ Len(s.buf) = s.alloc
  /\ s.buf[s.len + 1] = NUL
  /\ \A i \in 1..s.len : s.buf[i] # NUL

str_eq(s1, s2) ==
  s1.len = s2.len /\ \A i \in 1..s1.len : s1.buf[i] = s2.buf[i]

str_new(fill) ==
  LET alloc == str_round_up(0 + 1)
  IN [len |-> 0, alloc |-> alloc,
      buf |-> [malloc(alloc, fill) EXCEPT ![0 + 1] = NUL]]

str_dup(src, fill) ==
  LET len == strlen(src)
      alloc == str_round_up(len + 1)
  IN [len |-> len, alloc |-> alloc,
      buf |-> memcpy(malloc(alloc, fill), 0, src, len + 1)]

do_str_cpy(dest, src, n, fill) ==
  LET r == str_resize(dest, n, fill)
  IN [r EXCEPT !.buf = memcpy(r.buf, 0, src, r.len + 1)]

str_cpy(dest, src, fill) == do_str_cpy(dest, src, strlen(src), fill)

str_cpy_s(dest, src, fill) == do_str_cpy(dest, src.buf, src.len, fill)

\* str_ncpy without its last line, the terminator written after the copy
str_ncpy_unterminated(dest, src, n, fill) ==
  do_str_cpy(dest, src, IF strlen(src) < n THEN strlen(src) ELSE n, fill)

str_ncpy(dest, src, n, fill) ==
  LET m == IF strlen(src) < n THEN strlen(src) ELSE n
      r == do_str_cpy(dest, src, m, fill)
  IN [r EXCEPT !.buf[m + 1] = NUL]

RECURSIVE putc_loop(_, _, _, _)
putc_loop(dest, cs, k, fill) ==
  IF k > Len(cs) \/ cs[k] = 0
  THEN dest
  ELSE LET r == str_resize(dest, dest.len + 1, fill)
       IN putc_loop([r EXCEPT !.buf[r.len] = cs[k] % 256], cs, k + 1, fill)

\* _str_putc(dest, c1, ...): cs are the arguments, read up to the first 0
\* (the end of cs stands for the 0 that closes the argument list)
_str_putc(dest, cs, fill) == putc_loop(dest, cs, 1, fill)

\* do_str_cat that copies to the start of the buffer, not to its old end
do_str_cat_at_start(dest, src, n, fill) ==
  LET r == str_resize(dest, dest.len + n, fill)
  IN [r EXCEPT !.buf = memcpy(r.buf, 0, src, n)]

do_str_cat(dest, src, n, fill) ==
  LET oldLen == dest.len
      r == str_resize(dest, oldLen + n, fill)
  IN [r EXCEPT !.buf = memcpy(r.buf, oldLen, src, n)]

str_ncat(dest, src, n, fill) ==
  do_str_cat(dest, src, IF strlen(src) < n THEN strlen(src) ELSE n, fill)

RECURSIVE cat_loop(_, _, _, _)
cat_loop(dest, ss, k, fill) ==
  IF k > Len(ss)
  THEN dest
  ELSE cat_loop(do_str_cat(dest, ss[k], strlen(ss[k]), fill), ss, k + 1, fill)

\* _str_cat(dest, s1, ...): ss are the C strings before the closing NULL
_str_cat(dest, ss, fill) == cat_loop(dest, ss, 1, fill)

RECURSIVE cat_s_loop(_, _, _, _)
cat_s_loop(dest, ss, k, fill) ==
  IF k > Len(ss)
  THEN dest
  ELSE cat_s_loop(do_str_cat(dest, ss[k].buf, ss[k].len, fill), ss, k + 1, fill)

\* _str_cat_s(dest, s1, ...): ss are the buffers before the closing NULL
_str_cat_s(dest, ss, fill) == cat_s_loop(dest, ss, 1, fill)

\* the content of a buffer: its bytes before len
Content(s) == SubSeq(s.buf, 1, s.len)

\* ------------------------------------------------------------ integers

\* An integer of the C program is its bit pattern: a sequence of 16-bit limbs,
\* least significant first (2 limbs: int and unsigned, 4 limbs: intmax_t and
\* uintmax_t), so that the widest values keep their width.
LimbMod == 2 ^ 16

IsZero(n) == \A k \in 1..Len(n) : n[k] = 0

\* the sign bit of a two's complement pattern
IsNeg(n) == n[Len(n)] >= LimbMod \div 2

RECURSIVE div10_from(_, _, _)
div10_from(n, k, rem) ==
  IF k = 0
  THEN [q |-> <<>>, r |-> rem]
  ELSE LET cur == rem * LimbMod + n[k]
           rest == div10_from(n, k - 1, cur % 10)
       IN [q |-> Append(rest.q, cur \div 10), r |-> rest.r]

\* n / 10 and n % 10 of an unsigned pattern: long division, from the most
\* significant limb down
Div10(n) == div10_from(n, Len(n), 0)

RECURSIVE add_small(_, _, _)
add_small(n, k, carry) ==
  IF k > Len(n)
  THEN <<>>
  ELSE LET cur == n[k] + carry
       IN <<cur % LimbMod>> \o add_small(n, k + 1, cur \div LimbMod)

\* -n in two's complement: every bit flipped, plus one, the carry out dropped
Negate(n) == add_small([k \in 1..Len(n) |-> (LimbMod - 1) - n[k]], 1, 1)

\* the conversion of an int to intmax_t (sign extension)
IntToIntmax(n) ==
  n \o (IF IsNeg(n) THEN <<LimbMod - 1, LimbMod - 1>> ELSE <<0, 0>>)

\* the conversion of an unsigned to uintmax_t (zero extension)
UnsignedToUintmax(n) == n \o <<0, 0>>

\* the most negative intmax_t
INTMAX_MIN == <<0, 0, 0, LimbMod \div 2>>

\* imaxabs(i).  imaxabs(INTMAX_MIN) is undefined (its result is not an
\* intmax_t): a build either wraps to INTMAX_MIN or traps, as `ub` says.
imaxabs(i, ub) ==
  IF ~IsNeg(i) THEN [v |-> i, trap |-> FALSE]
  ELSE IF i = INTMAX_MIN THEN [v |-> i, trap |-> ub = "trap"]
  ELSE [v |-> Negate(i), trap |-> FALSE]

\* ------------------------------------------------------------ format engine

\* sizeof(buf) of str_cat_fmt's scratch buffer
BufSize == 24

CH_s == 115
CH_S == 83
CH_i == 105
CH_I == 73
CH_u == 117
CH_U == 85

\* *s = c for a pointer s into the scratch buffer: a write outside of the
\* buffer is recorded, not made
Poke(b, s, c) ==
  IF s >= 0 /\ s < BufSize
  THEN [b EXCEPT !.buf[s + 1] = c]
  ELSE [b EXCEPT !.oob = TRUE]

RECURSIVE fmt_u_loop(_, _, _)
fmt_u_loop(n, b, s) ==
  LET d == Div10(n)
      b1 == Poke(b, s, ZERO + d.r)
  IN IF IsZero(d.q) THEN [b |-> b1, s |-> (s - 1) + 1] ELSE fmt_u_loop(d.q, b1, s - 1)

\* do_fmt_u(n, s): the digits of n written backward from s; returns the
\* scratch buffer and the position of the first digit
do_fmt_u(n, b, s) == fmt_u_loop(n, Poke(b, s, NUL), s - 1)

\* the bytes of memory from C index off on
MemFrom(mem, off) == SubSeq(mem, off + 1, Len(mem))

\* the signed branch of str_cat_fmt: %i and %I
fmt_signed(i, b, ub) ==
  LET a == imaxabs(i, ub)
      r == do_fmt_u(a.v, b, BufSize - 1)
  IN IF IsNeg(i)
     THEN [b |-> Poke(r.b, r.s - 1, MINUS), s |-> r.s - 1, trap |-> a.trap]
     ELSE [b |-> r.b, s |-> r.s, trap |-> a.trap]

RECURSIVE fmt_loop(_, _, _, _, _, _, _)
fmt_loop(dest, fmt, off, bytesLeft, args, ai, env) ==
  IF bytesLeft = 0
  THEN [dest |-> dest, out |-> "return", oob |-> FALSE]
  ELSE
    LET pct == memchr(fmt, off, PCT, bytesLeft) IN
    IF pct = NULL
    THEN [dest |-> _str_cat(dest, <<MemFrom(fmt, off)>>, env.fill),
          out |-> "return", oob |-> FALSE]
    ELSE
      LET d1 == IF pct > off
                THEN str_ncat(dest, MemFrom(fmt, off), pct - off, env.fill)
                ELSE dest
          left == (bytesLeft - ((pct + 2) - off)) % SizeMod
          nxt == pct + 2
          scratch == [buf |-> [k \in 1..BufSize |-> env.fill], oob |-> FALSE]
          more(d, n) == fmt_loop(d, fmt, nxt, left, args, n, env)
          number(r) ==
            IF r.trap
            THEN [dest |-> d1, out |-> "trap", oob |-> r.b.oob]
            ELSE LET m == more(_str_cat(d1, <<MemFrom(r.b.buf, r.s)>>, env.fill), ai + 1)
                 IN [m EXCEPT !.oob = m.oob \/ r.b.oob]
      IN
      IF nxt >= Len(fmt)
      THEN \* the '%' was the last byte: fmt is past the terminator and bytesLeft
           \* has wrapped.  assert(strlen(fmt) == bytesLeft) fails when asserts
           \* are compiled in; without them the scan runs on outside the
           \* template, which is undefined
           [dest |-> d1, oob |-> FALSE,
            out |-> IF ~env.ndebug THEN "abort"
                    ELSE IF env.ub = "trap" THEN "trap" ELSE "return"]
      ELSE
        LET c == fmt[(pct + 1) + 1] IN
        IF c = CH_s THEN more(_str_cat(d1, <<args[ai]>>, env.fill), ai + 1)
        ELSE IF c = CH_S THEN more(_str_cat_s(d1, <<args[ai]>>, env.fill), ai + 1)
        ELSE IF c = CH_i \/ c = CH_I
        THEN number(fmt_signed(IF c = CH_i THEN IntToIntmax(args[ai]) ELSE args[ai],
                               scratch, env.ub))
        ELSE IF c = CH_u
        THEN number(do_fmt_u(UnsignedToUintmax(args[ai]), scratch, BufSize - 1)
                    @@ [trap |-> FALSE])
        ELSE IF c = CH_U
        THEN number(do_fmt_u(args[ai], scratch, BufSize - 1) @@ [trap |-> FALSE])
        ELSE IF ~env.ndebug
        THEN [dest |-> d1, out |-> "abort", oob |-> FALSE]  \* assert(false)
        ELSE more(d1, ai)

\* str_cat_fmt(dest, fmt, ...): args are the variable arguments, each of the
\* type its specifier reads.  env.ndebug: asserts are compiled out;
\* env.fill: the value of uninitialized bytes; env.ub: what undefined
\* behaviour does.  out is "return", "abort" (a failed assert) or "trap".
str_cat_fmt(dest, fmt, args, env) ==
  fmt_loop(dest, fmt, 0, strlen(fmt), args, 1, env)

\* ------------------------------------------------------------ tokenizer

\* the first loop of str_tok as an if: one delimiter eaten at most
eat_one_delim(mem, s, delim, n) ==
  IF mem[s + 1] # NUL /\ memchr(delim, 0, mem[s + 1], n) # NULL THEN s + 1 ELSE s

RECURSIVE eat_delims(_, _, _, _)
\* the first loop of str_tok: eat delimiters before the token
eat_delims(mem, s, delim, n) ==
  IF mem[s + 1] # NUL /\ memchr(delim, 0, mem[s + 1], n) # NULL
  THEN eat_delims(mem, s + 1, delim, n)
  ELSE s

RECURSIVE eat_token(_, _, _, _, _, _)
\* the second loop of str_tok: eat non delimiters into the token
eat_token(mem, s, token, delim, n, fill) ==
  IF mem[s + 1] # NUL /\ memchr(delim, 0, mem[s + 1], n) = NULL
  THEN eat_token(mem, s + 1, _str_putc(token, <<mem[s + 1]>>, fill), delim, n, fill)
  ELSE [token |-> token, s |-> s]

\* str_tok that clears the token before it tests s
str_tok_clears_first(mem, s, token, delim, fill) ==
  IF s = NULL
  THEN [token |-> str_cpy(token, CStr(<<>>), fill), ret |-> NULL]
  ELSE LET n == strlen(delim)
           r == eat_token(mem, eat_delims(mem, s, delim, n),
                          str_cpy(token, CStr(<<>>), fill), delim, n, fill)
       IN [token |-> r.token, ret |-> IF r.token.len # 0 THEN r.s ELSE NULL]

\* str_tok(s, token, delim): s is a position in the C string mem, or NULL
str_tok(mem, s, token, delim, fill) ==
  IF s = NULL
  THEN [token |-> token, ret |-> NULL]
  ELSE LET n == strlen(delim)
           r == eat_token(mem, eat_delims(mem, s, delim, n),
                          str_cpy(token, CStr(<<>>), fill), delim, n, fill)
       IN [token |-> r.token, ret |-> IF r.token.len # 0 THEN r.s ELSE NULL]

\* ------------------------------------------------------------ line reader

\* getc_unlocked(in): the next byte of the stream and the new read position,
\* or EOF at its end
getc_unlocked(data, pos) ==
  IF pos < Len(data)
  THEN [c |-> data[pos + 1], pos |-> pos + 1]
  ELSE [c |-> EOF, pos |-> pos]

\* one turn of str_getline's loop on the byte c just read: the byte is
\* appended, or the loop is left
getline_put(out, c, fill) ==
  IF c # NL /\ c # EOF
  THEN [out |-> _str_putc(out, <<c>>, fill), brk |-> FALSE]
  ELSE [out |-> out, brk |-> TRUE]

\* the value str_getline returns
getline_ret(out, c) == out.len + (IF c = NL THEN 1 ELSE 0)

RECURSIVE getline_loop(_, _, _, _)
getline_loop(out, data, pos, fill) ==
  LET g == getc_unlocked(data, pos)
      p == getline_put(out, g.c, fill)
  IN IF p.brk
     THEN [out |-> out, pos |-> g.pos, c |-> g.c]
     ELSE getline_loop(p.out, data, g.pos, fill)

\* str_getline(out, in) run by the only reader of the stream
str_getline(out, data, pos, fill) ==
  LET r == getline_loop(str_cpy(out, CStr(<<>>), fill), data, pos, fill)
  IN [out |-> r.out, pos |-> r.pos, n |-> getline_ret(r.out, r.c)]

\* ------------------------------------------------------------ libc strings

\* strcmp(a, b) == 0: the two C strings hold the same bytes
strcmp_eq(a, b) == SubSeq(a, 1, strlen(a)) = SubSeq(b, 1, strlen(b))

\* strstr(hay, needle) != NULL: needle occurs in hay
strstr_found(hay, needle) ==
  \E off \in 0..(strlen(hay) - strlen(needle)) :
    SubSeq(hay, off + 1, off + strlen(needle)) = SubSeq(needle, 1, strlen(needle))

RECURSIVE atoi_from(_, _, _)
atoi_from(mem, k, acc) ==
  IF mem[k + 1] >= ZERO /\ mem[k + 1] <= ZERO + 9
  THEN atoi_from(mem, k + 1, acc * 10 + (mem[k + 1] - ZERO))
  ELSE acc

\* atoi(3) of a C string that begins with its digits
atoi(mem) == atoi_from(mem, 0, 0)

\* the bytes of text written as a tuple of characters
Lower == <<"a", "b", "c", "d", "e", "f", "g", "h", "i", "j", "k", "l", "m",
           "n", "o", "p", "q", "r", "s", "t", "u", "v", "w", "x", "y", "z">>
Digit == <<"0", "1", "2", "3", "4", "5", "6", "7", "8", "9">>
Ord(c) ==
  IF c = "-" THEN MINUS
  ELSE IF c = " " THEN 32
  ELSE IF \E k \in 1..Len(Digit) : Digit[k] = c
  THEN (ZERO - 1) + (CHOOSE k \in 1..Len(Digit) : Digit[k] = c)
  ELSE 96 + (CHOOSE k \in 1..Len(Lower) : Lower[k] = c)
Text(cs) == [k \in 1..Len(cs) |-> Ord(cs[k])]

\* ================================================================ state

VARIABLES
  s,       \* SpecStr: the buffer the operations act on
  op,      \* SpecStr: the last operation, its arguments and the content before it
  ru,      \* SpecRound: one call of str_round_up, step by step
  prev,    \* SpecRound: the argument and the result of the call before
  f,       \* SpecFmt: one call of str_cat_fmt
  tk,      \* SpecTok: a tokenizing loop
  stream,  \* SpecLine: the FILE shared by the readers
  th,      \* SpecLine: each reader's call of str_getline
  o        \* SpecOpt: one call of options_new

vars == <<s, op, ru, prev, f, tk, stream, th, o>>

\* the variables of the other components, left alone
NoStr == s = <<>> /\ op = <<>>
NoRound == ru = <<>> /\ prev = <<>>
NoFmt == f = <<>>
NoTok == tk = <<>>
NoLine == stream = <<>> /\ th = <<>>
NoOpt == o = <<>>

\* ------------------------------------------------------------ inputs

\* the sequences over S of length at most n
SeqsUpTo(S, n) == UNION {[1..k -> S] : k \in 0..n}

\* what an uninitialized byte may hold
Fills == {0, 255}

\* the raw strings given to the operations of the buffer ("", "a", "ba", "abb")
RawStrings == {<<>>, <<97>>, <<98, 97>>, <<97, 98, 98>>}

\* the lengths given to the bounded operations
Counts == {1, 3}

\* the fragment lists of an append
FragLists ==
  {<<>>, <<<<97>>>>, <<<<98, 97>>, <<97>>>>, <<<<97>>, <<>>>>, <<<<>>, <<98, 97>>>>,
   <<<<98, 97>>, <<98, 97>>>>}

\* a small unsigned value as a pattern of k limbs
Pattern(v, k) == [j \in 1..k |-> IF j = 1 THEN v ELSE 0]

\* ================================================================ SpecStr
\* The public operations of the buffer, in any order, on one buffer.

StrInit ==
  /\ \E fill \in Fills :
       s \in {str_new(fill)} \cup {str_dup(CStr(x), fill) : x \in RawStrings}
  /\ op = [name |-> "new"]
  /\ NoRound /\ NoFmt /\ NoTok /\ NoLine /\ NoOpt

StrRest == UNCHANGED <<ru, prev, f, tk, stream, th, o>>

\* an operation's result is kept when it fits the modelled memory
Fits(r) == r.len <= MaxLen

StrCpy ==
  \E x \in RawStrings, fill \in Fills :
    LET r == str_cpy(s, CStr(x), fill) IN
    /\ Fits(r)
    /\ s' = r
    /\ op' = [name |-> "cpy"]
    /\ StrRest

\* str_cpy_s from another buffer, or from the buffer itself
StrCpyS ==
  \E fill \in Fills :
    \E src \in {s} \cup {str_dup(CStr(x), fill) : x \in RawStrings} :
      LET r == str_cpy_s(s, src, fill) IN
      /\ Fits(r)
      /\ s' = r
      /\ op' = [name |-> "cpy_s"]
      /\ StrRest

StrNcpy ==
  \E x \in RawStrings, n \in Counts, fill \in Fills :
    LET r == str_ncpy(s, CStr(x), n, fill) IN
    /\ Fits(r)
    /\ s' = r
    /\ op' = [name |-> "ncpy"]
    /\ StrRest

\* str_putc(dest, c...): the characters given; a 0 among them ends the list
StrPutc ==
  \E cs \in {<<0>>, <<97>>, <<98, 97>>, <<97, 0, 98>>}, fill \in Fills :
    LET r == _str_putc(s, cs, fill) IN
    /\ Fits(r)
    /\ s' = r
    /\ op' = [name |-> "putc"]
    /\ StrRest

StrNcat ==
  \E x \in RawStrings, n \in Counts, fill \in Fills :
    LET r == str_ncat(s, CStr(x), n, fill) IN
    /\ Fits(r)
    /\ s' = r
    /\ op' = [name |-> "ncat", old |-> Content(s), src |-> x, n |-> n]
    /\ StrRest

\* str_cat(dest, s1, ...) on C strings
StrCat ==
  \E xs \in FragLists, fill \in Fills :
    LET r == _str_cat(s, [k \in 1..Len(xs) |-> CStr(xs[k])], fill) IN
    /\ Fits(r)
    /\ s' = r
    /\ op' = [name |-> "cat", old |-> Content(s), frags |-> xs]
    /\ StrRest

\* str_cat_s(dest, s1, ...) on other buffers
StrCatS ==
  \E xs \in FragLists, fill \in Fills :
    LET bufs == [k \in 1..Len(xs) |-> str_dup(CStr(xs[k]), fill)]
        r == _str_cat_s(s, bufs, fill)
    IN
    /\ Fits(r)
    /\ s' = r
    /\ op' = [name |-> "cat_s", old |-> Content(s), frags |-> bufs]
    /\ StrRest

\* the calls of str_cat_fmt made on the buffer: "%s", "a%i" and "%S%u"
StrFmtCalls(fill) ==
  {[fmt |-> <<PCT, CH_s>>, args |-> <<CStr(<<98, 97>>)>>],
   [fmt |-> <<97, PCT, CH_i>>, args |-> <<Negate(Pattern(5, 2))>>],
   [fmt |-> <<PCT, CH_S, PCT, CH_u>>,
    args |-> <<str_dup(CStr(<<97>>), fill), Pattern(12, 2)>>]}

StrCatFmt ==
  \E fill \in Fills :
    \E call \in StrFmtCalls(fill) :
      LET r == str_cat_fmt(s, CStr(call.fmt), call.args,
                           [fill |-> fill, ndebug |-> FALSE, ub |-> "wrap"])
      IN
      /\ r.out = "return"
      /\ Fits(r.dest)
      /\ s' = r.dest
      /\ op' = [name |-> "cat_fmt"]
      /\ StrRest

\* str_tok with the buffer as its token
StrTok ==
  \E x \in {<<>>, <<32>>, <<98>>, <<32, 97, 98, 32, 97>>}, fill \in Fills :
    LET r == str_tok(CStr(x), 0, s, CStr(<<32>>), fill) IN
    /\ Fits(r.token)
    /\ s' = r.token
    /\ op' = [name |-> "tok"]
    /\ StrRest

\* str_getline with the buffer as its line
StrGetline ==
  \E data \in {<<>>, <<NL>>, <<97, 98, NL, 97>>, <<98, NUL, 97>>}, fill \in Fills :
    LET r == str_getline(s, data, 0, fill) IN
    /\ Fits(r.out)
    /\ s' = r.out
    /\ op' = [name |-> "getline"]
    /\ StrRest

StrNext ==
  \/ StrCpy \/ StrCpyS \/ StrNcpy \/ StrPutc \/ StrNcat
  \/ StrCat \/ StrCatS \/ StrCatFmt \/ StrTok \/ StrGetline

SpecStr == StrInit /\ [][StrNext]_vars

\* ---- the growth policy as the specification words it

\* the powers of two up to the range of size_t
PowersOfTwo == {2 ^ k : k \in 0..(8 * WordBytes)}

\* the smallest power of two that is at least two machine words and at least n
capacityFor(n) ==
  CHOOSE p \in PowersOfTwo :
    /\ p >= 2 * WordBytes /\ p >= n
    /\ \A q \in PowersOfTwo : (q >= 2 * WordBytes /\ q >= n) => p <= q

\* C1: after each public operation of the buffer the terminator is at
\* buffer[length], no byte before it is 0, and the capacity is at least
\* capacityFor(length + 1).
C1_BufferInvariants ==
  /\ Len(s.buf) = s.alloc
  /\ s.len < s.alloc
  /\ s.buf[s.len + 1] = 0
  /\ \A i \in 1..s.len : s.buf[i] # 0
  /\ s.alloc >= capacityFor(s.len + 1)

\* C1's case: a bounded copy has cut a longer source short, in a block that
\* had grown and still holds the bytes of its longer content
C1_Witness ==
  /\ op.name = "ncpy"
  /\ s.len = 1
  /\ s.alloc > 2 * WordBytes
  /\ s.buf[s.len + 2] \in {97, 98}

RECURSIVE Flatten(_)
\* the concatenation of the sequences of xs
Flatten(xs) == IF xs = <<>> THEN <<>> ELSE Head(xs) \o Flatten(Tail(xs))

\* C2: an append leaves the old content followed by every fragment's bytes in
\* order, and a bounded append adds the first min(maxLen, length) bytes.
C2_AppendIsConcatenation ==
  /\ op.name = "cat" => Content(s) = op.old \o Flatten(op.frags)
  /\ op.name = "cat_s" =>
       Content(s) = op.old \o Flatten([k \in 1..Len(op.frags) |-> Content(op.frags[k])])
  /\ op.name = "ncat" =>
       Content(s) = op.old \o SubSeq(op.src, 1, Min(op.n, Len(op.src)))

\* C2's case: two non-empty buffers appended to a non-empty buffer, which grew
C2_Witness ==
  /\ op.name = "cat_s"
  /\ Len(op.frags) = 2
  /\ op.frags[1].len > 0 /\ op.frags[2].len > 0
  /\ Content(op.frags[1]) # Content(op.frags[2])
  /\ op.old # <<>>
  /\ s.alloc > 2 * WordBytes

\* ================================================================ SpecRound
\* str_round_up step by step, called directly and from str_resize.

\* the sizes str_round_up is called with: the small ones, and those around
\* every power of two of size_t
RoundInputs ==
  (0..9) \cup
  ({2 ^ k + d : k \in 2..(8 * WordBytes), d \in {-1, 0, 1}} \cap 0..SIZE_MAX)

\* the largest size of an object (PTRDIFF_MAX): a buffer's bytes and its
\* terminator are within one object
MaxObject == SizeMod \div 2 - 1

\* the lengths str_resize is called with
ResizeLens == {n - 1 : n \in RoundInputs \cap 1..MaxObject}

RoundInit ==
  /\ ru = [pc |-> "idle"]
  /\ prev = [has |-> FALSE]
  /\ NoStr /\ NoFmt /\ NoTok /\ NoLine /\ NoOpt

RoundRest == UNCHANGED <<s, op, f, tk, stream, th, o>>

\* a call begins: the call before, if it returned, is remembered
RoundEnter(n, len) ==
  /\ ru.pc \in {"idle", "done"}
  /\ ru' = [pc |-> "loop", n |-> n, p2 |-> round_up_init, len |-> len]
  /\ prev' = IF ru.pc = "done" THEN [has |-> TRUE, n |-> ru.n, ret |-> ru.p2] ELSE prev
  /\ RoundRest

\* str_round_up(n) called on any size
RoundUpCall == \E n \in RoundInputs : RoundEnter(n, NULL)

\* str_resize(s, len) calls str_round_up(len + 1), in size_t arithmetic
RoundUpFromResize == \E len \in ResizeLens : RoundEnter((len + 1) % SizeMod, len)

\* while (p2 < n) p2 *= 2;
RoundUpLoop ==
  /\ ru.pc = "loop"
  /\ ru.p2 < ru.n
  /\ ru' = [ru EXCEPT !.p2 = round_up_step(ru.p2)]
  /\ UNCHANGED prev
  /\ RoundRest

\* return p2;
RoundUpReturn ==
  /\ ru.pc = "loop"
  /\ ~(ru.p2 < ru.n)
  /\ ru' = [ru EXCEPT !.pc = "done"]
  /\ UNCHANGED prev
  /\ RoundRest

RoundNext == RoundUpCall \/ RoundUpFromResize \/ RoundUpLoop \/ RoundUpReturn

\* the thread that runs the loop keeps running it
SpecRound ==
  /\ RoundInit /\ [][RoundNext]_vars
  /\ WF_vars(RoundUpLoop) /\ WF_vars(RoundUpReturn)

\* the sizes for which a power of two at least as large fits in size_t
Representable(n) == n <= SizeMod \div 2

\* what C10 says of the calls whose size satisfies InDomain
RoundUpClaim(InDomain(_)) ==
  /\ [](ru.pc = "loop" /\ InDomain(ru.n) => <>(ru.pc = "done"))
  /\ [](ru.pc = "done" /\ InDomain(ru.n) => ru.p2 = capacityFor(ru.n))
  /\ [](ru.pc = "done" /\ prev.has /\ InDomain(ru.n) /\ InDomain(prev.n) =>
          /\ prev.n <= ru.n => prev.ret <= ru.p2
          /\ ru.n <= prev.n => ru.p2 <= prev.ret)
  /\ [](ru.pc # "idle" /\ ru.len # NULL => ru.n = ru.len + 1)

AnySize(n) == TRUE

\* C10 as stated: for every size of size_t, str_round_up terminates with the
\* smallest power of two that is at least two words and at least n, it is
\* monotonic, and str_resize calls it on len + 1 unwrapped.
C10_AsStated == RoundUpClaim(AnySize)

\* C10, amended: the same for every size that is at most half the range of
\* size_t (for a larger one no power of two fits and the loop never ends).
C10_RoundUp == RoundUpClaim(Representable)

\* C10's case: a call from str_resize returned a grown capacity after a call
\* on a smaller size returned
C10_Witness ==
  /\ ru.pc = "done" /\ ru.len # NULL /\ ru.p2 > round_up_init
  /\ prev.has /\ prev.n < ru.n /\ prev.ret < ru.p2

\* ================================================================ SpecFmt
\* One call of str_cat_fmt on a template made of pieces: literal runs,
\* specifiers with their argument, and malformed specifiers.

RECURSIVE mul10_add(_, _, _)
\* n * 10 + carry of an unsigned pattern, from limb k up
mul10_add(n, k, carry) ==
  IF k > Len(n)
  THEN <<>>
  ELSE LET cur == n[k] * 10 + carry
       IN <<cur % LimbMod>> \o mul10_add(n, k + 1, cur \div LimbMod)

RECURSIVE FromDecimal(_, _)
\* the pattern of w limbs of the number whose decimal digits are ds
FromDecimal(ds, w) ==
  IF ds = <<>>
  THEN [k \in 1..w |-> 0]
  ELSE mul10_add(FromDecimal(SubSeq(ds, 1, Len(ds) - 1), w), 1, ds[Len(ds)])

\* the text of the decimal digits ds
DigitText(ds) == [k \in 1..Len(ds) |-> ZERO + ds[k]]

\* a literal run of the template
Lit(x) == [text |-> x, args |-> <<>>, exp |-> x, good |-> TRUE]

\* the specifier %c with the integer of w limbs written neg, ds in decimal
IntPiece(c, neg, ds, w) ==
  [text |-> <<PCT, c>>,
   args |-> <<IF neg THEN Negate(FromDecimal(ds, w)) ELSE FromDecimal(ds, w)>>,
   exp |-> (IF neg THEN <<MINUS>> ELSE <<>>) \o DigitText(ds),
   good |-> TRUE]

\* %s with the C string x, %S with a buffer holding x
StrPiece(x) == [text |-> <<PCT, CH_s>>, args |-> <<CStr(x)>>, exp |-> x, good |-> TRUE]
BufPiece(x) ==
  [text |-> <<PCT, CH_S>>, args |-> <<str_dup(CStr(x), 0)>>, exp |-> x, good |-> TRUE]

\* a '%' followed by a byte that is no specifier, or by nothing
BadPiece(x) == [text |-> x, args |-> <<>>, exp |-> <<>>, good |-> FALSE]

INT_MAX_DIGITS == <<2, 1, 4, 7, 4, 8, 3, 6, 4, 7>>
INT_MIN_DIGITS == <<2, 1, 4, 7, 4, 8, 3, 6, 4, 8>>
UINT_MAX_DIGITS == <<4, 2, 9, 4, 9, 6, 7, 2, 9, 5>>
INTMAX_MAX_DIGITS == <<9, 2, 2, 3, 3, 7, 2, 0, 3, 6, 8, 5, 4, 7, 7, 5, 8, 0, 7>>
INTMAX_MIN_DIGITS == <<9, 2, 2, 3, 3, 7, 2, 0, 3, 6, 8, 5, 4, 7, 7, 5, 8, 0, 8>>
UINTMAX_MAX_DIGITS == <<1, 8, 4, 4, 6, 7, 4, 4, 0, 7, 3, 7, 0, 9, 5, 5, 1, 6, 1, 5>>
TEN_POW_19_DIGITS == <<1, 0, 0, 0, 0, 0, 0, 0, 0, 0, 0, 0, 0, 0, 0, 0, 0, 0, 0, 0>>

\* the pieces are numbered: a template is a list of their numbers
GoodPieces ==
  <<Lit(<<97>>), Lit(<<32, 98>>),
    StrPiece(<<>>), StrPiece(<<97, PCT, 98>>), BufPiece(<<98, 97>>),
    IntPiece(CH_i, FALSE, <<0>>, 2), IntPiece(CH_i, FALSE, <<3>>, 2),
    IntPiece(CH_i, TRUE, <<5>>, 2), IntPiece(CH_i, FALSE, INT_MAX_DIGITS, 2),
    IntPiece(CH_i, TRUE, INT_MIN_DIGITS, 2),
    IntPiece(CH_I, FALSE, <<0>>, 4), IntPiece(CH_I, TRUE, <<1>>, 4),
    IntPiece(CH_I, FALSE, <<6, 5, 5, 3, 6>>, 4),
    IntPiece(CH_I, FALSE, INTMAX_MAX_DIGITS, 4),
    IntPiece(CH_I, TRUE, INTMAX_MAX_DIGITS, 4),
    IntPiece(CH_I, TRUE, INTMAX_MIN_DIGITS, 4),
    IntPiece(CH_u, FALSE, <<0>>, 2), IntPiece(CH_u, FALSE, <<1, 0>>, 2),
    IntPiece(CH_u, FALSE, UINT_MAX_DIGITS, 2),
    IntPiece(CH_U, FALSE, <<0>>, 4), IntPiece(CH_U, FALSE, <<9, 9>>, 4),
    IntPiece(CH_U, FALSE, TEN_POW_19_DIGITS, 4),
    IntPiece(CH_U, FALSE, UINTMAX_MAX_DIGITS, 4)>>

\* "%x", "%d", "%%" and a '%' with nothing after it
BadPieces ==
  <<BadPiece(<<PCT, 120>>), BadPiece(<<PCT, 100>>), BadPiece(<<PCT, PCT>>),
    BadPiece(<<PCT>>)>>

\* the pieces of "%i apples, %u oranges" with -5 and 3
ExamplePieces ==
  <<IntPiece(CH_i, TRUE, <<5>>, 2),
    Lit(<<32, 97, 112, 112, 108, 101, 115, 44, 32>>),
    IntPiece(CH_u, FALSE, <<3>>, 2),
    Lit(<<32, 111, 114, 97, 110, 103, 101, 115>>)>>

Pieces == GoodPieces \o BadPieces \o ExamplePieces

ApplesAndOranges ==
  [k \in 1..Len(ExamplePieces) |-> Len(GoodPieces) + Len(BadPieces) + k]

FmtTemplates ==
  SeqsUpTo(1..(Len(GoodPieces) + Len(BadPieces)), 2) \cup {ApplesAndOranges}

\* the template, the arguments and the expected text of a list of pieces
TemplateOf(ps) == Flatten([k \in 1..Len(ps) |-> Pieces[ps[k]].text])
ArgsOf(ps) == Flatten([k \in 1..Len(ps) |-> Pieces[ps[k]].args])
ExpectedOf(ps) == Flatten([k \in 1..Len(ps) |-> Pieces[ps[k]].exp])
WellFormed(ps) == \A k \in 1..Len(ps) : Pieces[ps[k]].good

\* the builds and the runs: asserts compiled out or not, what undefined
\* behaviour does, what uninitialized bytes hold
Envs == [fill : Fills, ndebug : BOOLEAN, ub : {"wrap", "trap"}]

FmtInit ==
  /\ \E ps \in FmtTemplates, x \in {<<>>, <<97, 98>>}, env \in Envs :
       f = [pc |-> "call", pieces |-> ps, dest |-> str_dup(CStr(x), env.fill),
            env |-> env]
  /\ NoStr /\ NoRound /\ NoTok /\ NoLine /\ NoOpt

\* str_cat_fmt(dest, fmt, ...) runs to its end: it returns, or the process dies
CatFmt ==
  /\ f.pc = "call"
  /\ f' = [f EXCEPT !.pc = "done"] @@
          [res |-> str_cat_fmt(f.dest, CStr(TemplateOf(f.pieces)), ArgsOf(f.pieces),
                               f.env)]
  /\ UNCHANGED <<s, op, ru, prev, tk, stream, th, o>>

FmtNext == CatFmt

SpecFmt == FmtInit /\ [][FmtNext]_vars

\* C3: on a template of literal bytes and the six specifiers, the call
\* returns with the old content followed by the template, each specifier
\* replaced by the exact rendering of its argument, and no digit is written
\* outside of the scratch buffer.
C3_FormatRendersExactly ==
  (f.pc = "done" /\ WellFormed(f.pieces)) =>
    /\ f.res.out = "return"
    /\ ~f.res.oob
    /\ Content(f.res.dest) = Content(f.dest) \o ExpectedOf(f.pieces)

\* C8: on a template with a '%' that no specifier byte follows, the call
\* does not return: the process is terminated.
C8_BadSpecifierIsFatal ==
  (f.pc = "done" /\ ~WellFormed(f.pieces)) => f.res.out # "return"

\* ================================================================ SpecTok
\* A caller's loop on str_tok: each call is given what the call before
\* returned.  The loop may also begin with NULL, whatever the token holds.

TokInit ==
  /\ \E mem \in SeqsUpTo({97, 32, 44}, MaxInput),
        delim \in {<<32>>, <<32, 44>>, <<97>>},
        first \in {0, NULL},
        token \in {str_new(0), str_dup(CStr(<<98, 98>>), 0)} :
       tk = [mem |-> mem, delim |-> delim, s |-> first, token |-> token,
             first |-> first, called |-> FALSE, toks |-> <<>>, rets |-> <<>>]
  /\ NoStr /\ NoRound /\ NoFmt /\ NoLine /\ NoOpt

\* s = str_tok(s, &token, delim): the tokens and the positions returned are
\* recorded, with the argument and the token of this call
TokCall ==
  \E fill \in Fills :
    LET r == str_tok(CStr(tk.mem), tk.s, tk.token, CStr(tk.delim), fill) IN
    /\ tk' = [tk EXCEPT !.s = r.ret, !.token = r.token, !.called = TRUE,
                        !.toks = IF r.ret # NULL THEN Append(@, Content(r.token)) ELSE @,
                        !.rets = IF r.ret # NULL THEN Append(@, r.ret) ELSE @]
             @@ [arg |-> tk.s, before |-> tk.token]
    /\ UNCHANGED <<s, op, ru, prev, f, stream, th, o>>

TokNext == TokCall

SpecTok == TokInit /\ [][TokNext]_vars

\* the maximal runs of non-delimiter bytes of mem, as <<first, last>> indices
Runs(mem, delim) ==
  LET D == {delim[k] : k \in 1..Len(delim)} IN
  {r \in (1..Len(mem)) \X (1..Len(mem)) :
     /\ r[1] <= r[2]
     /\ \A k \in r[1]..r[2] : mem[k] \notin D
     /\ r[1] = 1 \/ mem[r[1] - 1] \in D
     /\ r[2] = Len(mem) \/ mem[r[2] + 1] \in D}

\* the runs in the order of the input
RunList(mem, delim) ==
  LET R == Runs(mem, delim) IN
  [k \in 1..Cardinality(R) |->
     CHOOSE r \in R : Cardinality({q \in R : q[1] < r[1]}) = k - 1]

\* C4: a loop on str_tok from the start of the input yields the maximal runs
\* of non-delimiter bytes in order, each call returning the position just
\* after its token, and then NULL.
C4_TokensAreMaximalRuns ==
  (tk.first = 0) =>
    LET R == RunList(tk.mem, tk.delim) IN
    /\ Len(tk.toks) <= Len(R)
    /\ Len(tk.rets) = Len(tk.toks)
    /\ \A k \in 1..Len(tk.toks) :
         /\ tk.toks[k] = SubSeq(tk.mem, R[k][1], R[k][2])
         /\ tk.rets[k] = R[k][2]
    /\ (tk.called /\ tk.s = NULL) => Len(tk.toks) = Len(R)
    /\ (tk.called /\ tk.s # NULL) => tk.s = tk.rets[Len(tk.rets)]

\* C4's case: the loop has ended on an input of two tokens that begins with
\* a delimiter
C4_Witness ==
  /\ tk.first = 0 /\ tk.called /\ tk.s = NULL
  /\ Len(tk.toks) = 2
  /\ tk.mem[1] = 32 /\ tk.delim = <<32>>

\* C7 as stated: called with NULL, str_tok returns NULL and the token is empty.
C7_AsStated ==
  (tk.called /\ tk.arg = NULL) => (tk.s = NULL /\ tk.token.len = 0)

\* C7, amended: called with NULL, str_tok returns NULL and leaves the token
\* as it was (it is empty only if it was empty before the call).
C7_SentinelIsNoOp ==
  (tk.called /\ tk.arg = NULL) => (tk.s = NULL /\ tk.token = tk.before)

\* C7's case: str_tok was called with NULL and a token that held bytes
C7_Witness ==
  tk.called /\ tk.arg = NULL /\ tk.before.len > 0

\* ================================================================ SpecLine
\* Threads that call str_getline on one shared stream, each with a buffer of
\* its own.

Readers == {"r1", "r2"}
Nobody == "nobody"

LineInit ==
  /\ \E data \in SeqsUpTo({97, NUL, NL}, MaxStream) :
       stream = [data |-> data, pos |-> 0, owner |-> Nobody]
  /\ th = [r \in Readers |->
            [pc |-> "idle", out |-> str_new(0), c |-> NUL, n |-> 0, got |-> <<>>,
             returned |-> FALSE]]
  /\ NoStr /\ NoRound /\ NoFmt /\ NoTok /\ NoOpt

LineRest == UNCHANGED <<s, op, ru, prev, f, tk, o>>

\* a flockfile that never waits
can_flockfile_always(in, r) == TRUE

\* flockfile(in) returns to thread r once no other thread owns the stream
can_flockfile(in, r) == in.owner = Nobody

\* str_cpy(out, "")
GetlineEnter(r) ==
  /\ th[r].pc = "idle"
  /\ \E fill \in Fills :
       th' = [th EXCEPT ![r].pc = "flockfile", ![r].got = <<>>,
                        ![r].out = str_cpy(th[r].out, CStr(<<>>), fill)]
  /\ UNCHANGED stream
  /\ LineRest

\* flockfile(in)
Flockfile(r) ==
  /\ th[r].pc = "flockfile"
  /\ can_flockfile(stream, r)
  /\ stream' = [stream EXCEPT !.owner = r]
  /\ th' = [th EXCEPT ![r].pc = "getc"]
  /\ LineRest

\* one turn of the loop: c = getc_unlocked(in), then str_putc(out, c) or break;
\* the positions of the bytes taken from the stream are recorded
GetlineLoop(r) ==
  /\ th[r].pc = "getc"
  /\ \E fill \in Fills :
       LET g == getc_unlocked(stream.data, stream.pos)
           p == getline_put(th[r].out, g.c, fill)
       IN
       /\ stream' = [stream EXCEPT !.pos = g.pos]
       /\ th' = [th EXCEPT ![r].c = g.c, ![r].out = p.out,
                           ![r].pc = IF p.brk THEN "funlockfile" ELSE "getc",
                           ![r].got = IF g.c # EOF THEN Append(@, stream.pos) ELSE @]
  /\ LineRest

\* funlockfile(in)
Funlockfile(r) ==
  /\ th[r].pc = "funlockfile"
  /\ stream' = [stream EXCEPT !.owner = Nobody]
  /\ th' = [th EXCEPT ![r].pc = "return"]
  /\ LineRest

\* return n
GetlineReturn(r) ==
  /\ th[r].pc = "return"
  /\ th' = [th EXCEPT ![r].pc = "idle", ![r].returned = TRUE,
                      ![r].n = getline_ret(th[r].out, th[r].c)]
  /\ UNCHANGED stream
  /\ LineRest

LineNext ==
  \E r \in Readers :
    \/ GetlineEnter(r) \/ Flockfile(r) \/ GetlineLoop(r)
    \/ Funlockfile(r) \/ GetlineReturn(r)

SpecLine == LineInit /\ [][LineNext]_vars

\* the call of reader r has returned and r has not called again
Returned(r) == th[r].pc = "idle" /\ th[r].returned

\* the bytes of the stream at the positions ps
BytesAt(ps) == [k \in 1..Len(ps) |-> stream.data[ps[k] + 1]]

\* C5: str_getline returns the number of bytes it consumed, which is the
\* length of the line plus one at a newline and the length of the line at the
\* end of the stream, and the line holds the bytes consumed before that.
C5_ReturnsBytesConsumed ==
  \A r \in Readers :
    Returned(r) =>
      /\ th[r].n = Len(th[r].got)
      /\ th[r].c = NL => th[r].n = th[r].out.len + 1
      /\ th[r].c = EOF => th[r].n = th[r].out.len
      /\ Content(th[r].out) =
           BytesAt(SubSeq(th[r].got, 1,
                          Len(th[r].got) - (IF th[r].c = NL THEN 1 ELSE 0)))

\* C6: a reader owns the stream's lock from before its first read until its
\* loop has ended, on the newline and on the end of the stream alike, and does
\* not own it otherwise; so the bytes of one call are consecutive bytes of
\* the stream that end at a line boundary.
C6_LockCoversLineScan ==
  \A r \in Readers :
    /\ th[r].pc \in {"getc", "funlockfile"} => stream.owner = r
    /\ th[r].pc \in {"idle", "flockfile", "return"} => stream.owner # r
    /\ \A k \in 1..(Len(th[r].got) - 1) : th[r].got[k + 1] = th[r].got[k] + 1
    /\ (Returned(r) /\ th[r].c = NL) =>
         stream.data[th[r].got[Len(th[r].got)] + 1] = NL
    /\ (Returned(r) /\ th[r].c = EOF /\ th[r].got # <<>>) =>
         th[r].got[Len(th[r].got)] + 1 = Len(stream.data)
    /\ Returned(r) => th[r].c \in {NL, EOF}

\* C6's case: a reader waits for the lock while another is in the middle of
\* its line, after a first line was read
C6_Witness ==
  \E r1, r2 \in Readers :
    /\ th[r1].pc = "getc" /\ Len(th[r1].got) >= 1 /\ th[r1].got[1] > 0
    /\ th[r2].pc = "flockfile" /\ th[r2].returned

\* ================================================================ SpecOpt
\* options_new(argc, argv), one turn of its loop at a time.

TAG_CHESS960 == Text(<<"-", "c", "h", "e", "s", "s", "9", "6", "0">>)
TAG_RANDOM == Text(<<"-", "r", "a", "n", "d", "o", "m">>)
TAG_REPEAT == Text(<<"-", "r", "e", "p", "e", "a", "t">>)
TAG_CONCURRENCY == Text(<<"-", "c", "o", "n", "c", "u", "r", "r", "e", "n", "c", "y">>)
TAG_GAMES == Text(<<"-", "g", "a", "m", "e", "s">>)
TAG_OPENINGS == Text(<<"-", "o", "p", "e", "n", "i", "n", "g", "s">>)

\* "-concurrency -games -openings", the text options_new searches for a tag
VALUE_TAGS == TAG_CONCURRENCY \o <<32>> \o TAG_GAMES \o <<32>> \o TAG_OPENINGS

\* the arguments of the command line: the six tags, "-open", "-x", "7", "book"
ArgWords ==
  {TAG_CHESS960, TAG_RANDOM, TAG_REPEAT, TAG_CONCURRENCY, TAG_GAMES, TAG_OPENINGS,
   Text(<<"-", "o", "p", "e", "n">>), Text(<<"-", "x">>), Text(<<"7">>),
   Text(<<"b", "o", "o", "k">>)}

OptInit ==
  /\ \E args \in SeqsUpTo(ArgWords, MaxArgs), ndebug \in BOOLEAN :
       o = [argv |-> <<CStr(Text(<<"c", "l", "i">>))>> \o
                     [k \in 1..Len(args) |-> CStr(args[k])],
            argc |-> Len(args) + 1,
            ndebug |-> ndebug,
            pc |-> "for", i |-> 1, expectValue |-> FALSE, out |-> "running",
            options |-> [chess960 |-> FALSE, concurrency |-> 1, games |-> 1,
                         openings |-> str_new(0), random |-> FALSE,
                         repeat |-> FALSE]]
  /\ NoStr /\ NoRound /\ NoFmt /\ NoTok /\ NoLine

OptRest == UNCHANGED <<s, op, ru, prev, f, tk, stream, th>>

\* argv[i]
Argv(i) == o.argv[i + 1]

\* die(...): the diagnostic is printed and the process exits
Die == [o EXCEPT !.pc = "exit", !.out = "die"]

\* a turn of the loop on a tag
OptionsTag ==
  /\ o.pc = "for" /\ o.i < o.argc
  /\ Argv(o.i)[0 + 1] = MINUS
  /\ o' = IF o.expectValue THEN Die
          ELSE IF strstr_found(CStr(VALUE_TAGS), Argv(o.i))
          THEN [o EXCEPT !.expectValue = TRUE, !.i = @ + 1]
          ELSE IF strcmp_eq(Argv(o.i), CStr(TAG_CHESS960))
          THEN [o EXCEPT !.options.chess960 = TRUE, !.i = @ + 1]
          ELSE IF strcmp_eq(Argv(o.i), CStr(TAG_RANDOM))
          THEN [o EXCEPT !.options.random = TRUE, !.i = @ + 1]
          ELSE IF strcmp_eq(Argv(o.i), CStr(TAG_REPEAT))
          THEN [o EXCEPT !.options.repeat = TRUE, !.i = @ + 1]
          ELSE Die
  /\ OptRest

\* a turn of the loop on a value
OptionsValue ==
  /\ o.pc = "for" /\ o.i < o.argc
  /\ Argv(o.i)[0 + 1] # MINUS
  /\ \E fill \in Fills :
       o' = IF ~o.expectValue THEN Die
            ELSE IF strcmp_eq(Argv(o.i - 1), CStr(TAG_CONCURRENCY))
            THEN [o EXCEPT !.options.concurrency = atoi(Argv(o.i)),
                           !.expectValue = FALSE, !.i = @ + 1]
            ELSE IF strcmp_eq(Argv(o.i - 1), CStr(TAG_GAMES))
            THEN [o EXCEPT !.options.games = atoi(Argv(o.i)),
                           !.expectValue = FALSE, !.i = @ + 1]
            ELSE IF ~o.ndebug /\ ~strcmp_eq(Argv(o.i - 1), CStr(TAG_OPENINGS))
            THEN [o EXCEPT !.pc = "exit", !.out = "abort"]  \* the assert fails
            ELSE [o EXCEPT !.options.openings = str_cpy(@, Argv(o.i), fill),
                           !.expectValue = FALSE, !.i = @ + 1]
  /\ OptRest

\* the loop has ended
OptionsEnd ==
  /\ o.pc = "for" /\ ~(o.i < o.argc)
  /\ o' = IF o.expectValue THEN Die ELSE [o EXCEPT !.pc = "exit", !.out = "return"]
  /\ OptRest

OptNext == OptionsTag \/ OptionsValue \/ OptionsEnd

SpecOpt == OptInit /\ [][OptNext]_vars

\* the grammar of the command line: tags, each value-tag followed by a value
BoolTags == {CStr(TAG_CHESS960), CStr(TAG_RANDOM), CStr(TAG_REPEAT)}
ValueTags == {CStr(TAG_CONCURRENCY), CStr(TAG_GAMES), CStr(TAG_OPENINGS)}

RECURSIVE Grammatical(_)
Grammatical(args) ==
  \/ args = <<>>
  \/ Head(args) \in BoolTags /\ Grammatical(Tail(args))
  \/ /\ Head(args) \in ValueTags
     /\ Len(args) >= 2
     /\ args[2][1] # MINUS
     /\ Grammatical(Tail(Tail(args)))

\* C9: options_new ends in a fatal configuration error on every command line
\* that is not a list of the six tags, each value-tag followed by one value,
\* and returns only on such a list.
C9_BadCommandLineIsFatal ==
  (o.pc = "exit") =>
    /\ Grammatical(Tail(o.argv)) => o.out = "return"
    /\ ~Grammatical(Tail(o.argv)) => o.out = "die"

====
